---- MODULE Spec2Model ----
(***************************************************************************)
(* Model of dmarket.engine.MarketEngine: the double auction, single unit   *)
(* market matching engine (src/dmarket/engine.py).                         *)
(*                                                                         *)
(* Python values are represented as follows.                               *)
(*   - a list is a sequence; a tuple (offer, agent_id) is <<offer, id>>;   *)
(*   - a dict is the sequence of its <<key, value>> items in insertion     *)
(*     order (dicts preserve insertion order);                             *)
(*   - offers are integers; a deal price (bid + ask)/2 is kept exactly as  *)
(*     its numerator bid + ask over the fixed denominator 2, i.e. in half  *)
(*     units, so that 2 * ask <= price <= 2 * bid reads ask <= p <= bid;   *)
(*   - self.done and self.agents are references: after                     *)
(*     `self.done = self.agents` both names denote one set object, which   *)
(*     the variable doneIsAgents records.                                  *)
(***************************************************************************)
EXTENDS Integers, Sequences, FiniteSets, TLC

\* Bounds of the model.
MaxBuyers == 2
MaxSellers == 2
MaxPrice == 2
MaxOffers == 2
MaxMaxSteps == 3
MaxTime == 2
MaxLen == 2
MaxMatchPrice == 3
MaxDeals == 2

VARIABLES
    buyers,         \* self.buyers
    sellers,        \* self.sellers
    agents,         \* self.agents
    max_steps,      \* self.max_steps
    time,           \* self.time
    done,           \* self.done
    doneIsAgents,   \* TRUE iff self.done is the object self.agents
    offer_history,  \* self.offer_history
    deal_history,   \* self.deal_history
    call,           \* the last call made and its arguments
    ret             \* what the last call returned or raised, and the lists
                    \* passed to match as that call left them

vars == <<buyers, sellers, agents, max_steps, time, done, doneIsAgents,
          offer_history, deal_history, call, ret>>

engine == <<buyers, sellers, agents, max_steps, time, done, doneIsAgents,
            offer_history, deal_history>>

----------------------------------------------------------------------------
\* Values

\* a call of op: with the dict offers (step), with the lists bids and asks
\* (match)
Call(op, offers, bids, asks) ==
    [op |-> op, offers |-> offers, bids |-> bids, asks |-> asks]

\* the outcome of a call: None, RuntimeError, the deals of step, the deals
\* of match with the caller's lists after the call
Ret(kind, deals, bids, asks) ==
    [kind |-> kind, deals |-> deals, bids |-> bids, asks |-> asks]

None == Ret("None", <<>>, <<>>, <<>>)
RuntimeError == Ret("RuntimeError", <<>>, <<>>, <<>>)

Range(s) == {s[i] : i \in DOMAIN s}

Min(a, b) == IF a <= b THEN a ELSE b

Prices == 1..MaxPrice

BuyerIds(nb) == 1..nb
SellerIds(ns) == {MaxBuyers + i : i \in 1..ns}
UnknownId == MaxBuyers + MaxSellers + 1

\* The dicts a caller can pass to step: the items, in insertion order, of a
\* dict with at most MaxOffers distinct keys.
OfferDicts(ids) ==
    LET items == ids \X Prices
        seqs == UNION {[1..k -> items] : k \in 0..MaxOffers}
    IN  {s \in seqs : \A i, j \in DOMAIN s : s[i][1] = s[j][1] => i = j}

----------------------------------------------------------------------------
\* dict

Keys(d) == {d[i][1] : i \in DOMAIN d}

\* d[k] = v
DictSet(d, k, v) ==
    IF k \in Keys(d)
    THEN [i \in DOMAIN d |-> IF d[i][1] = k THEN <<k, v>> ELSE d[i]]
    ELSE Append(d, <<k, v>>)

----------------------------------------------------------------------------
\* list.sort on a list of (offer, agent_id) tuples

\* tuples compared on the offer alone, as a sort with key=offer would
OfferLess(a, b) == a[1] < b[1]

\* Python's tuple comparison a < b: lexicographic
TupleLess(a, b) == a[1] < b[1] \/ (a[1] = b[1] /\ a[2] < b[2])

\* a sorts strictly before b
Before(a, b, reverse) == IF reverse THEN TupleLess(b, a) ELSE TupleLess(a, b)

\* x inserted into the sorted list r behind every element it does not sort
\* strictly before (the sort is stable)
InsertSorted(r, x, reverse) ==
    LET later == {i \in DOMAIN r : Before(x, r[i], reverse)}
        p == IF later = {} THEN Len(r) + 1
             ELSE CHOOSE i \in later : \A j \in later : i <= j
    IN  SubSeq(r, 1, p - 1) \o <<x>> \o SubSeq(r, p, Len(r))

RECURSIVE SortFrom(_, _, _, _)
SortFrom(s, i, r, reverse) ==
    IF i > Len(s) THEN r
    ELSE SortFrom(s, i + 1, InsertSorted(r, s[i], reverse), reverse)

\* the contents of list s after s.sort(reverse=reverse)
Sort(s, reverse) == SortFrom(s, 1, <<>>, reverse)

----------------------------------------------------------------------------
\* MarketEngine.match

\* the sum of bid and ask, not halved
MidPriceNotHalved(bid, ask) == 2 * (bid + ask)

\* the pair dealing at the ask
MidPriceOfAsk(bid, ask) == ask + ask

\* price = (bid + ask)/2, in half units
MidPrice(bid, ask) == bid + ask

\* the test with > for >=
MatchesStrictly(bid, ask) == bid > ask

\* the test of the loop body
Matches(bid, ask) == bid >= ask

\* the loop recording for the buyer the bid and for the seller the ask
\* instead of the mid-price for both
RECURSIVE MatchLoopOwnPrice(_, _, _, _, _)
MatchLoopOwnPrice(bids, asks, i, n, deals) ==
    IF i > n THEN deals
    ELSE IF Matches(bids[i][1], asks[i][1])
         THEN MatchLoopOwnPrice(bids, asks, i + 1, n,
                  DictSet(DictSet(deals, bids[i][2], MidPrice(bids[i][1], bids[i][1])),
                          asks[i][2], MidPrice(asks[i][1], asks[i][1])))
         ELSE deals

\* the loop stopping behind its first pair
RECURSIVE MatchLoopOnce(_, _, _, _, _)
MatchLoopOnce(bids, asks, i, n, deals) ==
    IF i > n \/ i > 1 THEN deals
    ELSE IF Matches(bids[i][1], asks[i][1])
         THEN MatchLoopOnce(bids, asks, i + 1, n,
                  DictSet(DictSet(deals, bids[i][2], MidPrice(bids[i][1], asks[i][1])),
                          asks[i][2], MidPrice(bids[i][1], asks[i][1])))
         ELSE deals

\* the for loop over zip(bids[0:n], asks[0:n]), from index i on
RECURSIVE MatchLoop(_, _, _, _, _)
MatchLoop(bids, asks, i, n, deals) ==
    IF i > n THEN deals
    ELSE IF Matches(bids[i][1], asks[i][1])
         THEN MatchLoop(bids, asks, i + 1, n,
                  DictSet(DictSet(deals, bids[i][2], MidPrice(bids[i][1], asks[i][1])),
                          asks[i][2], MidPrice(bids[i][1], asks[i][1])))
         ELSE deals

\* bids sorted like asks, lowest first
SortedBidsAscending(bids) == Sort(bids, FALSE)

\* match sorting a copy: the caller's list is left as it was
SortedAsksOfCopy(asks) == asks

\* match sorting a copy of bids: the caller's list is left as it was
SortedBidsOfCopy(bids) == bids

\* asks sorted like bids, highest first
SortedAsksDescending(asks) == Sort(asks, TRUE)

\* the caller's list bids after the call: bids.sort(reverse=True)
SortedBids(bids) == Sort(bids, TRUE)

\* the caller's list asks after the call: asks.sort(reverse=False)
SortedAsks(asks) == Sort(asks, FALSE)

\* match(bids, asks): the dict returned, and the caller's two lists as the
\* call leaves them (the sorts are in place)
Match(bids, asks) ==
    LET sb == SortedBids(bids)
        sa == SortedAsks(asks)
        n == Min(Len(sb), Len(sa))
    IN  [deals |-> MatchLoop(sb, sa, 1, n, <<>>), bids |-> sb, asks |-> sa]

----------------------------------------------------------------------------
\* MarketEngine.step

\* an unknown agent skipped like a finished one
RouteSkipsUnknown(agent_id, d, B, S) ==
    IF agent_id \in d THEN "skip"
    ELSE IF agent_id \in B THEN "bid"
    ELSE IF agent_id \in S THEN "ask"
    ELSE "skip"

\* no test of self.done
RouteOfDone(agent_id, d, B, S) ==
    IF agent_id \in B THEN "bid"
    ELSE IF agent_id \in S THEN "ask"
    ELSE "raise"

\* an offer of a finished agent rejected instead of skipped
RouteRaisesDone(agent_id, d, B, S) ==
    IF agent_id \in d THEN "raise"
    ELSE IF agent_id \in B THEN "bid"
    ELSE IF agent_id \in S THEN "ask"
    ELSE "raise"

\* what the loop over offers.items() does with one item
Route(agent_id, d, B, S) ==
    IF agent_id \in d THEN "skip"
    ELSE IF agent_id \in B THEN "bid"
    ELSE IF agent_id \in S THEN "ask"
    ELSE "raise"

\* the loop over offers.items() from item i on: the lists bids and asks it
\* builds, or the error it raises
RECURSIVE Collect(_, _, _, _, _, _, _)
Collect(offers, i, bids, asks, d, B, S) ==
    IF i > Len(offers) THEN [raised |-> FALSE, bids |-> bids, asks |-> asks]
    ELSE LET agent_id == offers[i][1]
             offer == offers[i][2]
             r == Route(agent_id, d, B, S)
         IN  CASE r = "skip" -> Collect(offers, i + 1, bids, asks, d, B, S)
               [] r = "bid" ->
                    Collect(offers, i + 1, Append(bids, <<offer, agent_id>>), asks, d, B, S)
               [] r = "ask" ->
                    Collect(offers, i + 1, bids, Append(asks, <<offer, agent_id>>), d, B, S)
               [] OTHER -> [raised |-> TRUE, bids |-> bids, asks |-> asks]

\* the market closing on the round limit alone
MarketOverByTime(t, ms, d, B, S) == t >= ms

\* the round limit tested with > for >=
MarketOverLate(t, ms, d, B, S) == t > ms \/ B \subseteq d \/ S \subseteq d

\* the market closing on an exhausted side alone
MarketOverBySide(t, ms, d, B, S) == B \subseteq d \/ S \subseteq d

\* the condition of the final if of step
MarketOver(t, ms, d, B, S) == t >= ms \/ B \subseteq d \/ S \subseteq d

\* only the buyers of the deals added to self.done
DoneAddBuyers(d, deals) == d \cup (Keys(deals) \cap buyers)

\* self.done replaced by the agents of this round's deals
DoneOfRound(d, deals) == Keys(deals)

\* self.done after `for agent_id in deals: self.done.add(agent_id)`
DoneAdd(d, deals) == d \cup Keys(deals)

\* self.time after `self.time += 1`
Tick(t) == t + 1

\* the deals put in front of the history
PrependDeals(dh, deals) == <<deals>> \o dh

\* self.deal_history after `self.deal_history.append(deals)`
AppendDeals(dh, deals) == Append(dh, deals)

\* a round without offers not recorded
AppendOffersIfAny(oh, bids, asks) ==
    IF bids = <<>> /\ asks = <<>> THEN oh ELSE Append(oh, <<bids, asks>>)

\* self.offer_history after `self.offer_history.append((bids, asks))`
AppendOffers(oh, bids, asks) == Append(oh, <<bids, asks>>)

\* step(offers) raises: the loop has only touched its local lists
StepRaises(offers) ==
    /\ Collect(offers, 1, <<>>, <<>>, done, buyers, sellers).raised
    /\ call' = Call("step", offers, <<>>, <<>>)
    /\ ret' = RuntimeError
    /\ UNCHANGED engine

\* step(offers) returns deals
StepReturns(offers) ==
    LET c == Collect(offers, 1, <<>>, <<>>, done, buyers, sellers)
        m == Match(c.bids, c.asks)
        t == Tick(time)
        \* done.add mutates the object self.done refers to
        d == DoneAdd(done, m.deals)
        a == IF doneIsAgents THEN d ELSE agents
        over == MarketOver(t, max_steps, d, buyers, sellers)
    IN  /\ ~c.raised
        /\ deal_history' = AppendDeals(deal_history, m.deals)
        /\ offer_history' = AppendOffers(offer_history, m.bids, m.asks)
        /\ time' = t
        /\ agents' = a
        /\ done' = IF over THEN a ELSE d
        /\ doneIsAgents' = (over \/ doneIsAgents)
        /\ call' = Call("step", offers, <<>>, <<>>)
        /\ ret' = Ret("deals", m.deals, <<>>, <<>>)
        /\ UNCHANGED <<buyers, sellers, max_steps>>

\* MarketEngine.step, called in a round below MaxTime
Step(offers) ==
    /\ time < MaxTime
    /\ \/ StepRaises(offers)
       \/ StepReturns(offers)

\* a reset that empties the set self.done refers to (self.done.clear())
\* instead of binding self.done to a new set
ResetClearsInPlace ==
    /\ time' = 0
    /\ done' = {}
    /\ agents' = IF doneIsAgents THEN {} ELSE agents
    /\ offer_history' = <<>>
    /\ deal_history' = <<>>
    /\ call' = Call("reset", <<>>, <<>>, <<>>)
    /\ ret' = None
    /\ UNCHANGED <<buyers, sellers, max_steps, doneIsAgents>>

\* a reset that forgets to clear self.done
ResetKeepsDone ==
    /\ time' = 0
    /\ offer_history' = <<>>
    /\ deal_history' = <<>>
    /\ call' = Call("reset", <<>>, <<>>, <<>>)
    /\ ret' = None
    /\ UNCHANGED <<buyers, sellers, agents, max_steps, done, doneIsAgents>>

\* a reset that takes back the last round only
ResetLastRound ==
    /\ time' = IF time > 0 THEN time - 1 ELSE 0
    /\ done' = {}
    /\ doneIsAgents' = FALSE
    /\ offer_history' = SubSeq(offer_history, 1, Len(offer_history) - 1)
    /\ deal_history' = SubSeq(deal_history, 1, Len(deal_history) - 1)
    /\ call' = Call("reset", <<>>, <<>>, <<>>)
    /\ ret' = None
    /\ UNCHANGED <<buyers, sellers, agents, max_steps>>

\* MarketEngine.reset
Reset ==
    /\ time' = 0
    /\ done' = {}
    /\ doneIsAgents' = FALSE
    /\ offer_history' = <<>>
    /\ deal_history' = <<>>
    /\ call' = Call("reset", <<>>, <<>>, <<>>)
    /\ ret' = None
    /\ UNCHANGED <<buyers, sellers, agents, max_steps>>

\* MarketEngine.__init__, for the constructions within the bounds
Init ==
    /\ \E nb \in 0..MaxBuyers, ns \in 0..MaxSellers :
          /\ buyers = BuyerIds(nb)
          /\ sellers = SellerIds(ns)
          /\ agents = BuyerIds(nb) \cup SellerIds(ns)
    /\ max_steps \in 1..MaxMaxSteps
    /\ time = 0
    /\ done = {}
    /\ doneIsAgents = FALSE
    /\ offer_history = <<>>
    /\ deal_history = <<>>
    /\ call = Call("__init__", <<>>, <<>>, <<>>)
    /\ ret = None

Next ==
    \/ Reset
    \/ \E offers \in OfferDicts(buyers \cup sellers \cup {UnknownId}) : Step(offers)

Spec == Init /\ [][Next]_vars

----------------------------------------------------------------------------
\* MarketEngine.match called on its own (it is a static method)

\* the lists of (offer, agent_id) tuples of at most MaxLen distinct agents
\* among ids
OfferLists(ids) ==
    LET items == (1..MaxMatchPrice) \X ids
        seqs == UNION {[1..k -> items] : k \in 0..MaxLen}
    IN  {s \in seqs : \A i, j \in DOMAIN s : s[i][2] = s[j][2] => i = j}

MatchBuyerIds == 1..MaxLen
MatchSellerIds == {MaxLen + i : i \in 1..MaxLen}

\* a caller holding two lists, about to call match; the engine is not involved
MatchInit ==
    /\ buyers = {}
    /\ sellers = {}
    /\ agents = {}
    /\ max_steps = 1
    /\ time = 0
    /\ done = {}
    /\ doneIsAgents = FALSE
    /\ offer_history = <<>>
    /\ deal_history = <<>>
    /\ \E bids \in OfferLists(MatchBuyerIds), asks \in OfferLists(MatchSellerIds) :
          call = Call("match", <<>>, bids, asks)
    /\ ret = None

\* deals = MarketEngine.match(bids, asks)
MatchCall ==
    /\ call.op = "match"
    /\ ret.kind = "None"
    /\ LET m == Match(call.bids, call.asks)
       IN  ret' = Ret("match", m.deals, m.bids, m.asks)
    /\ UNCHANGED <<engine, call>>

MatchNext == MatchCall

MatchSpec == MatchInit /\ [][MatchNext]_vars

----------------------------------------------------------------------------
\* DealInformationSetting.get_states (src/dmarket/info_settings.py)

\* list(d.values())
Values(d) == [i \in DOMAIN d |-> d[i][2]]

\* l[0:stop:2]: the elements at the Python indices 0, 2, 4, ... below stop
EverySecond(l, stop) ==
    LET m == Min(Len(l), stop)
    IN  [k \in 1..((m + 1) \div 2) |-> l[2 * k - 1]]

\* np.pad(l, (0, k)): k zeros appended
PadZeros(l, k) == l \o [i \in 1..k |-> 0]

\* the slice without its step: the first n values
DealStatesOfValues(dh, n) ==
    IF dh # <<>>
    THEN LET deals == SubSeq(Values(dh[Len(dh)]), 1, Min(Len(dh[Len(dh)]), n))
         IN  PadZeros(deals, n - Len(deals))
    ELSE [i \in 1..n |-> 0]

\* the array get_states gives every agent, for a market with deal_history
\* dh and a setting with n_deals = n
DealStates(dh, n) ==
    IF dh # <<>>
    THEN LET deals == EverySecond(Values(dh[Len(dh)]), 2 * n)
         IN  PadZeros(deals, n - Len(deals))
    ELSE [i \in 1..n |-> 0]

----------------------------------------------------------------------------
\* Properties

\* the agent universe given at construction
Universe == buyers \cup sellers

StepReturned == call.op = "step" /\ ret.kind = "deals"

StepRaised == call.op = "step" /\ ret.kind = "RuntimeError"

Last(h) == h[Len(h)]

\* the agents of a list of (offer, agent_id) tuples
OfferIds(l) == {l[i][2] : i \in DOMAIN l}

\* the offers of a dict made by the agents of side that are not in d, as
\* (offer, agent_id) tuples in the order of the dict
Submitted(offers, side, d) ==
    LET kept == SelectSeq(offers, LAMBDA item : item[1] \in side \ d)
    IN  [i \in DOMAIN kept |-> <<kept[i][2], kept[i][1]>>]

\* the side exhausted or the round limit reached
Closed == time >= max_steps \/ buyers \subseteq done \/ sellers \subseteq done

\* C1: a step whose offers hold a key that is neither a buyer nor a seller
\* raises the unknown-agent error and leaves time, done, offer_history and
\* deal_history as they were, whatever the state and the other offers.
Thm_C1 ==
    [][(call'.op = "step" /\ Keys(call'.offers) \ Universe # {})
         => /\ ret' = RuntimeError
            /\ UNCHANGED <<time, done, offer_history, deal_history>>]_vars

\* a step with one valid and one unknown agent has raised, in a market that
\* has had a round and has finished agents
Wit_C1 ==
    /\ StepRaised
    /\ Keys(call.offers) \cap Universe # {}
    /\ Keys(call.offers) \ Universe # {}
    /\ time >= 1
    /\ done # {}

\* C2: after a step that returns, if the round limit is reached or every
\* buyer or every seller is done, then done is the whole universe.
Thm_C2 ==
    [][(StepReturned' /\ (time' >= max_steps \/ buyers \subseteq done'
                                             \/ sellers \subseteq done'))
         => done' = Universe]_vars

\* one side is exhausted below the round limit and everyone is done, also
\* an agent that has had no deal
Wit_C2 ==
    /\ StepReturned
    /\ time = 1
    /\ time < max_steps
    /\ done = Universe
    /\ \E a \in Universe : a \notin Keys(deal_history[1])

\* C3 as stated: in every reachable state done is the universe iff the round
\* limit is reached or every buyer or every seller is done.
CE_C3 == (done = Universe) <=> Closed

\* C3 amended: the equivalence holds in every state in which a step has
\* returned since construction or the last reset (time >= 1).
Thm_C3 == time >= 1 => ((done = Universe) <=> Closed)

\* a round has been played, some agents are done and the market is open
Wit_C3 ==
    /\ time >= 1
    /\ done # {}
    /\ done # Universe
    /\ ~Closed

\* C4: time is the length of offer_history and of deal_history, in every
\* reachable state.
Thm_C4 == time = Len(offer_history) /\ time = Len(deal_history)

\* a step has raised after a round was played
Wit_C4 == StepRaised /\ time >= 1 /\ Len(offer_history) >= 1

\* C5: a step that returns adds 1 to time and appends one entry to each
\* history, the entries before it unchanged.
Thm_C5 ==
    [][StepReturned'
         => /\ time' = time + 1
            /\ Len(offer_history') = Len(offer_history) + 1
            /\ Len(deal_history') = Len(deal_history) + 1
            /\ SubSeq(offer_history', 1, Len(offer_history)) = offer_history
            /\ SubSeq(deal_history', 1, Len(deal_history)) = deal_history]_vars

\* a second step has returned behind a round with offers and deals
Wit_C5 ==
    /\ StepReturned
    /\ time = 2
    /\ offer_history[1] # <<<<>>, <<>>>>
    /\ deal_history[1] # <<>>
    /\ deal_history[2] = <<>>

\* C6: a step that returns leaves in done every agent that was in it.
Thm_C6 == [][StepReturned' => done \subseteq done']_vars

\* done has grown in two rounds
Wit_C6 ==
    /\ time = 2
    /\ Keys(deal_history[1]) # {}
    /\ Keys(deal_history[2]) # {}

\* C7: a step whose offers come from registered agents, some of them done
\* before the call, returns, and the agents that were done are neither in
\* the bids nor in the asks recorded for the round nor in its deals.
Thm_C7 ==
    [][(call'.op = "step" /\ Keys(call'.offers) \subseteq Universe
                          /\ Keys(call'.offers) \cap done # {})
         => /\ StepReturned'
            /\ Len(offer_history') = Len(offer_history) + 1
            /\ \A a \in Keys(call'.offers) \cap done :
                  /\ a \notin OfferIds(Last(offer_history')[1])
                  /\ a \notin OfferIds(Last(offer_history')[2])
                  /\ a \notin Keys(Last(deal_history'))
                  /\ a \notin Keys(ret'.deals)]_vars

\* the second round had an offer of an agent matched in the first and an
\* offer that was recorded
Wit_C7 ==
    /\ StepReturned
    /\ time = 2
    /\ Keys(call.offers) \cap Keys(deal_history[1]) # {}
    /\ OfferIds(offer_history[2][1]) \cup OfferIds(offer_history[2][2]) # {}

\* the i-th highest of the bids and the i-th lowest of the asks passed to
\* match, tuples compared as Python compares them
BidAt(i) ==
    CHOOSE x \in Range(call.bids) :
        Cardinality({y \in Range(call.bids) : TupleLess(x, y)}) = i - 1

AskAt(i) ==
    CHOOSE x \in Range(call.asks) :
        Cardinality({y \in Range(call.asks) : TupleLess(y, x)}) = i - 1

\* the pairs that yield a deal: every pair up to i has bid >= ask
DealAt(i) == \A j \in 1..i : BidAt(j)[1] >= AskAt(j)[1]

CE_C9 ==
    [][StepReturned'
         => Last(offer_history') = <<Submitted(call'.offers, buyers, done),
                                     Submitted(call'.offers, sellers, done)>>]_vars

\* l holds the tuples of s, each once, every tuple before the ones that
\* before(_, _) puts behind it
Arranged(l, s, before(_, _)) ==
    /\ Range(l) = Range(s)
    /\ Len(l) = Len(s)
    /\ \A i, j \in DOMAIN l : i < j => before(l[i], l[j])

\* C9 amended: the record appended by step holds the bids and the asks
\* submitted by agents that were not done, in the matcher's order: bids by
\* decreasing and asks by increasing (offer, agent_id).
Thm_C9 ==
    [][StepReturned'
         => /\ Arranged(Last(offer_history')[1],
                        Submitted(call'.offers, buyers, done),
                        LAMBDA x, y : TupleLess(y, x))
            /\ Arranged(Last(offer_history')[2],
                        Submitted(call'.offers, sellers, done),
                        LAMBDA x, y : TupleLess(x, y))]_vars

\* two asks were submitted the higher first, and recorded the lower first
Wit_C9 ==
    /\ StepReturned
    /\ time = 1
    /\ Len(Submitted(call.offers, sellers, {})) = 2
    /\ Submitted(call.offers, sellers, {})[1][1] > Submitted(call.offers, sellers, {})[2][1]
    /\ offer_history[1][2] # Submitted(call.offers, sellers, {})

\* C10: in every record of offer_history the bids are in descending and the
\* asks in ascending order of price.
Thm_C10 ==
    \A r \in DOMAIN offer_history :
        LET bids == offer_history[r][1]
            asks == offer_history[r][2]
        IN  /\ \A i, j \in DOMAIN bids : i < j => bids[i][1] >= bids[j][1]
            /\ \A i, j \in DOMAIN asks : i < j => asks[i][1] <= asks[j][1]

\* two bids were submitted the lower first, and recorded the higher first
Wit_C10 ==
    /\ StepReturned
    /\ Len(call.offers) = 2
    /\ call.offers[1][2] < call.offers[2][2]
    /\ Len(Last(offer_history)[1]) = 2
    /\ Last(offer_history)[1][1][1] > Last(offer_history)[1][2][1]

\* C11 as stated: after match the caller's two lists hold the same elements
\* in the same order as before the call.
CE_C11 == ret.kind = "match" => (ret.bids = call.bids /\ ret.asks = call.asks)

\* C11 amended: after match the caller's two lists hold the same elements
\* as before the call, the bids in decreasing and the asks in increasing
\* order of (offer, agent_id): match sorts them in place and has no other
\* effect on them.
Thm_C11 ==
    ret.kind = "match" =>
        /\ Arranged(ret.bids, call.bids, LAMBDA x, y : TupleLess(y, x))
        /\ Arranged(ret.asks, call.asks, LAMBDA x, y : TupleLess(x, y))

\* match was called on bids in increasing and asks in decreasing order and
\* has left both lists reversed
Wit_C11 ==
    /\ ret.kind = "match"
    /\ Len(call.bids) = 2
    /\ Len(call.asks) = 2
    /\ TupleLess(call.bids[1], call.bids[2])
    /\ TupleLess(call.asks[2], call.asks[1])
    /\ ret.bids = <<call.bids[2], call.bids[1]>>
    /\ ret.asks = <<call.asks[2], call.asks[1]>>

\* the lists that hold the elements of s in some order
Orders(s) ==
    {[i \in DOMAIN s |-> s[p[i]]] :
        p \in {q \in [DOMAIN s -> DOMAIN s] : \A i, j \in DOMAIN s : q[i] = q[j] => i = j}}

\* C12: match returns the same mapping for every order of the bids and
\* every order of the asks (agents distinct), and so also when called again.
Thm_C12 ==
    ret.kind = "match" =>
        \A bids \in Orders(call.bids), asks \in Orders(call.asks) :
            /\ Range(Match(bids, asks).deals) = Range(ret.deals)
            /\ Len(Match(bids, asks).deals) = Len(ret.deals)

\* match has dealt one of two bids of the same price; the other order of
\* the bids is a different list
Wit_C12 ==
    /\ ret.kind = "match"
    /\ Len(call.bids) = 2
    /\ call.bids[1][1] = call.bids[2][1]
    /\ Len(call.asks) = 1
    /\ Len(ret.deals) = 2

\* C13: reset leaves time 0, done empty and both histories empty, and the
\* buyers, the sellers and max_steps as they were, whatever the state.
Thm_C13 ==
    [][call'.op = "reset"
         => /\ time' = 0
            /\ done' = {}
            /\ offer_history' = <<>>
            /\ deal_history' = <<>>
            /\ buyers' = buyers
            /\ sellers' = sellers
            /\ max_steps' = max_steps]_vars

\* the engine has been reset, with agents on both sides
Wit_C13 ==
    /\ call.op = "reset"
    /\ buyers # {}
    /\ sellers # {}
    /\ time = 0

\* C14: a reset right after a reset changes nothing (a reset that follows a
\* reset is never a step that changes the state).
Thm_C14 == [][call.op = "reset" => call'.op # "reset"]_vars

\* the engine has been reset and is as constructed
Wit_C14 ==
    /\ call.op = "reset"
    /\ ret = None
    /\ time = 0
    /\ done = {}
    /\ ~doneIsAgents
    /\ offer_history = <<>>
    /\ deal_history = <<>>
    /\ agents = Universe

\* C15: once max_steps steps have returned since construction or reset,
\* done is the whole universe: no market is open at or past max_steps.
Thm_C15 == time >= max_steps => done = Universe

\* two rounds without offers have closed a market of two buyers and two
\* sellers at its round limit
Wit_C15 ==
    /\ StepReturned
    /\ max_steps = 2
    /\ time = max_steps
    /\ Cardinality(buyers) = 2
    /\ Cardinality(sellers) = 2
    /\ offer_history = <<<<<<>>, <<>>>>, <<<<>>, <<>>>>>>
    /\ deal_history = <<<<>>, <<>>>>
    /\ done = Universe

\* C16: the dict step returns is the entry it has appended to deal_history,
\* and none of its keys was in done before the call.
Thm_C16 ==
    [][StepReturned'
         => /\ ret'.deals = Last(deal_history')
            /\ Keys(ret'.deals) \cap done = {}]_vars

\* a second round has returned deals, behind a first round with deals
Wit_C16 ==
    /\ StepReturned
    /\ time = 2
    /\ ret.deals # <<>>
    /\ deal_history[1] # <<>>
    /\ ret.deals = deal_history[2]

\* C17: the dict match returns has as many buyers as sellers among its
\* keys, and its k-th buyer and k-th seller have the same price.
Thm_C17 ==
    ret.kind = "match" =>
        LET deals == ret.deals
            ofBuyers == SelectSeq(deals, LAMBDA item : item[1] \in OfferIds(call.bids))
            ofSellers == SelectSeq(deals, LAMBDA item : item[1] \in OfferIds(call.asks))
        IN  /\ Len(ofBuyers) = Len(ofSellers)
            /\ Len(ofBuyers) + Len(ofSellers) = Len(deals)
            /\ \A k \in DOMAIN ofBuyers : ofBuyers[k][2] = ofSellers[k][2]

\* match has returned two pairs, of different prices, each with a bid above
\* its ask
Wit_C17 ==
    /\ ret.kind = "match"
    /\ Len(ret.deals) = 4
    /\ ret.deals[1][2] # ret.deals[3][2]
    /\ ret.bids[1][1] > ret.asks[1][1]
    /\ ret.bids[2][1] > ret.asks[2][1]

\* C18: a step whose offers all come from registered agents returns and
\* commits a round, whatever the state: also without offers, with offers of
\* finished agents only, with no buyers or no sellers.
Thm_C18 ==
    [][(call'.op = "step" /\ Keys(call'.offers) \subseteq Universe)
         => /\ StepReturned'
            /\ time' = time + 1
            /\ Len(deal_history') = time']_vars

\* a step with offers of finished agents only has returned
Wit_C18 ==
    /\ StepReturned
    /\ time = 2
    /\ call.offers # <<>>
    /\ Keys(call.offers) \subseteq Keys(deal_history[1])
    /\ done # Universe

\* the one-to-one pairings of bids with asks passed to match in which every
\* pair has bid >= ask; a pair <<i, j>> is bid i of call.bids with ask j of
\* call.asks
Pairings ==
    {P \in SUBSET ((DOMAIN call.bids) \X (DOMAIN call.asks)) :
        /\ \A p, q \in P : (p[1] = q[1] \/ p[2] = q[2]) => p = q
        /\ \A p \in P : call.bids[p[1]][1] >= call.asks[p[2]][1]}

\* the pairing gives the lower asks to the higher bids
RankWise(P) ==
    \A p, q \in P :
        call.bids[p[1]][1] > call.bids[q[1]][1]
            => call.asks[p[2]][1] <= call.asks[q[2]][1]

\* the number of pairs match has made
Pairs == Len(ret.deals) \div 2

\* C19 as stated: no one-to-one pairing with bid >= ask in every pair has
\* more pairs than match returns.
CE_C19 == ret.kind = "match" => \A P \in Pairings : Cardinality(P) <= Pairs

\* C19 amended: no such pairing that gives the lower asks to the higher
\* bids has more pairs than match returns.
Thm_C19 ==
    ret.kind = "match" =>
        \A P \in Pairings : RankWise(P) => Cardinality(P) <= Pairs

\* match has made one pair out of two bids and two asks that can be paired
\* twice, the higher bid with the higher ask
Wit_C19 ==
    /\ ret.kind = "match"
    /\ Pairs = 1
    /\ \E P \in Pairings : Cardinality(P) = 2 /\ ~RankWise(P)

RECURSIVE EveryIndex(_, _, _, _, _)
EveryIndex(bids, asks, i, n, deals) ==
    IF i > n THEN deals
    ELSE IF bids[i][1] >= asks[i][1]
         THEN EveryIndex(bids, asks, i + 1, n,
                  Append(Append(deals, <<bids[i][2], bids[i][1] + asks[i][1]>>),
                         <<asks[i][2], bids[i][1] + asks[i][1]>>))
         ELSE EveryIndex(bids, asks, i + 1, n, deals)

\* C21: in the sorted lists of match every pair behind a pair that fails
\* bid >= ask fails it too, and the mapping returned is the one of a loop
\* that tests every index without stopping.
Thm_C21 ==
    ret.kind = "match" =>
        LET n == Min(Len(ret.bids), Len(ret.asks))
        IN  /\ \A i, j \in 1..n :
                  (i < j /\ ret.bids[i][1] < ret.asks[i][1])
                      => ret.bids[j][1] < ret.asks[j][1]
            /\ ret.deals = EveryIndex(ret.bids, ret.asks, 1, n, <<>>)

\* match has stopped at its first pair with a second pair left untested,
\* on lists it had to reorder
Wit_C21 ==
    /\ ret.kind = "match"
    /\ Len(ret.bids) = 2
    /\ Len(ret.asks) = 2
    /\ ret.bids # call.bids
    /\ ret.asks # call.asks
    /\ ret.bids[1][1] < ret.asks[1][1]
    /\ ret.deals = <<>>

\* the position of tuple x in list l
Pos(l, x) == CHOOSE i \in DOMAIN l : l[i] = x

\* C22 as stated: of two bids, or two asks, with the same price, match ranks
\* first the one that comes first in the list it was given.
CE_C22 ==
    ret.kind = "match" =>
        /\ \A i, j \in DOMAIN call.bids :
              (i < j /\ call.bids[i][1] = call.bids[j][1])
                  => Pos(ret.bids, call.bids[i]) < Pos(ret.bids, call.bids[j])
        /\ \A i, j \in DOMAIN call.asks :
              (i < j /\ call.asks[i][1] = call.asks[j][1])
                  => Pos(ret.asks, call.asks[i]) < Pos(ret.asks, call.asks[j])

\* C22 amended: of two bids with the same price match ranks first the one
\* of the greater agent id, of two asks with the same price the one of the
\* smaller agent id, wherever they stand in the lists given; the one ranked
\* second has a deal only if the one ranked first has one.
Thm_C22 ==
    ret.kind = "match" =>
        /\ \A x, y \in Range(call.bids) :
              (x[1] = y[1] /\ x[2] > y[2])
                  => /\ Pos(ret.bids, x) < Pos(ret.bids, y)
                     /\ y[2] \in Keys(ret.deals) => x[2] \in Keys(ret.deals)
        /\ \A x, y \in Range(call.asks) :
              (x[1] = y[1] /\ x[2] < y[2])
                  => /\ Pos(ret.asks, x) < Pos(ret.asks, y)
                     /\ y[2] \in Keys(ret.deals) => x[2] \in Keys(ret.deals)

\* of two bids with the same price the one given first has the smaller id,
\* and the single ask has gone to the other
Wit_C22 ==
    /\ ret.kind = "match"
    /\ Len(call.bids) = 2
    /\ Len(call.asks) = 1
    /\ call.bids[1][1] = call.bids[2][1]
    /\ call.bids[1][2] < call.bids[2][2]
    /\ ret.bids[1] = call.bids[2]
    /\ Keys(ret.deals) = {call.bids[2][2], call.asks[1][2]}

BuyerPrice(i) == ret.deals[2 * i - 1][2]

\* C24: deal prices are not monotone in rank. Of two buyers matched in one
\* call, the lower ranked has the strictly lower price exactly when the
\* bids are further apart than the asks paired with them, which happens
\* (Wit_C24): the second-highest bidder then pays less than the highest.
Thm_C24 ==
    ret.kind = "match" =>
        \A i, j \in 1..Pairs :
            i < j =>
                /\ ret.deals[2 * i - 1][1] = ret.bids[i][2]
                /\ ret.deals[2 * j - 1][1] = ret.bids[j][2]
                /\ (BuyerPrice(j) < BuyerPrice(i))
                       <=> (ret.bids[i][1] - ret.bids[j][1]
                               > ret.asks[j][1] - ret.asks[i][1])

\* the highest and the second-highest bidder are both matched, and the
\* second-highest bidder has the strictly lower price
Wit_C24 ==
    /\ ret.kind = "match"
    /\ Pairs = 2
    /\ ret.bids[1][1] > ret.bids[2][1]
    /\ ret.deals[1][1] = ret.bids[1][2]
    /\ ret.deals[3][1] = ret.bids[2][2]
    /\ BuyerPrice(2) < BuyerPrice(1)

\* C25: once done is the whole universe, a step with offers of registered
\* agents returns an empty mapping, records an empty list of bids and an
\* empty list of asks, leaves done the whole universe and adds 1 to time,
\* also beyond max_steps.
Thm_C25 ==
    [][(call'.op = "step" /\ Keys(call'.offers) \subseteq Universe
                          /\ done = Universe)
         => /\ StepReturned'
            /\ ret'.deals = <<>>
            /\ offer_history' = Append(offer_history, <<<<>>, <<>>>>)
            /\ deal_history' = Append(deal_history, <<>>)
            /\ done' = Universe
            /\ time' = time + 1]_vars

\* a step with a bid and an ask that match has returned in a market that
\* was over, and time is beyond max_steps
Wit_C25 ==
    /\ StepReturned
    /\ time > max_steps
    /\ done = Universe
    /\ \E i, j \in DOMAIN call.offers :
          /\ call.offers[i][1] \in buyers
          /\ call.offers[j][1] \in sellers
          /\ call.offers[i][2] >= call.offers[j][2]
    /\ Last(offer_history) = <<<<>>, <<>>>>
    /\ ret.deals = <<>>

\* C26: the mapping match returns holds its pairs in rank order, for each
\* pair the buyer and then the seller, both with the price of the pair; for
\* a market whose last round has this mapping DealInformationSetting
\* reports the prices of the first n pairs in rank order, followed by zeros
\* up to length n.
Thm_C26 ==
    ret.kind = "match" =>
        LET price(i) == ret.bids[i][1] + ret.asks[i][1]
        IN  /\ Len(ret.deals) = 2 * Pairs
            /\ \A i \in 1..Pairs :
                  /\ ret.deals[2 * i - 1] = <<ret.bids[i][2], price(i)>>
                  /\ ret.deals[2 * i] = <<ret.asks[i][2], price(i)>>
            /\ \A n \in 0..MaxDeals :
                  DealStates(<<ret.deals>>, n) =
                      [i \in 1..n |-> IF i <= Pairs THEN price(i) ELSE 0]

\* match has made two pairs of different prices; a setting of one deal
\* reports the first, a setting of two deals both
Wit_C26 ==
    /\ ret.kind = "match"
    /\ Pairs = 2
    /\ ret.deals[1][2] # ret.deals[3][2]
    /\ DealStates(<<ret.deals>>, 1) = <<ret.deals[1][2]>>
    /\ DealStates(<<ret.deals>>, 2) = <<ret.deals[1][2], ret.deals[3][2]>>

\* the agents with a deal in some round since construction or the last reset
Dealt == UNION {Keys(deal_history[r]) : r \in DOMAIN deal_history}

\* C27: when done is not the whole universe it is the set of the agents
\* that are a key of some entry of deal_history; with buyers and sellers
\* and time below max_steps, done is empty as long as no entry has a deal.
Thm_C27 ==
    /\ done # Universe => done = Dealt
    /\ (buyers # {} /\ sellers # {} /\ time < max_steps /\ Dealt = {})
           => done = {}

\* a round with a deal and a round without one have left the market open,
\* with the agents of the deal done
Wit_C27 ==
    /\ StepReturned
    /\ time = 2
    /\ deal_history[1] # <<>>
    /\ deal_history[2] = <<>>
    /\ done # Universe
    /\ done = Keys(deal_history[1])

\* C28: no agent is a key of two entries of deal_history: an agent with a
\* deal has no second deal in a later round before the next reset.
Thm_C28 ==
    \A r, s \in DOMAIN deal_history :
        r # s => Keys(deal_history[r]) \cap Keys(deal_history[s]) = {}

\* a buyer with a deal in the first round has bid again in the second, in
\* a market still open, at or above the ask of a seller without a deal, and
\* has no second deal
Wit_C28 ==
    /\ StepReturned
    /\ time = 2
    /\ deal_history[1] # <<>>
    /\ deal_history[2] = <<>>
    /\ max_steps > 1
    /\ buyers \ Keys(deal_history[1]) # {}
    /\ \E i, j \in DOMAIN call.offers :
          /\ call.offers[i][1] \in buyers \cap Keys(deal_history[1])
          /\ call.offers[j][1] \in sellers \ Keys(deal_history[1])
          /\ call.offers[i][2] >= call.offers[j][2]

\* the offer of agent a in the list l of (offer, agent_id) tuples
OfferOf(l, a) == (CHOOSE x \in Range(l) : x[2] = a)[1]

\* C29: in every round every matched pair has ask <= deal price <= bid,
\* for the bid and the ask recorded for its buyer and its seller in the
\* offer_history entry of that round (prices in half units: 2 * ask <=
\* price <= 2 * bid).
Thm_C29 ==
    \A r \in DOMAIN deal_history :
        LET deals == deal_history[r]
            bids == offer_history[r][1]
            asks == offer_history[r][2]
        IN  \A i \in 1..(Len(deals) \div 2) :
                LET buyer == deals[2 * i - 1]
                    seller == deals[2 * i]
                IN  /\ buyer[1] \in OfferIds(bids)
                    /\ seller[1] \in OfferIds(asks)
                    /\ buyer[2] = seller[2]
                    /\ 2 * OfferOf(asks, seller[1]) <= buyer[2]
                    /\ buyer[2] <= 2 * OfferOf(bids, buyer[1])

\* a round has a pair whose price is strictly between its ask and its bid,
\* behind a round that had a pair with bid = ask
Wit_C29 ==
    /\ StepReturned
    /\ time = 2
    /\ Len(deal_history[1]) = 2
    /\ offer_history[1][1][1][1] = offer_history[1][2][1][1]
    /\ Len(deal_history[2]) = 2
    /\ 2 * offer_history[2][2][1][1] < deal_history[2][1][2]
    /\ deal_history[2][1][2] < 2 * offer_history[2][1][1][1]

\* C30: self.agents is the union of the buyers and the sellers in every
\* reachable state, no step and no reset changes it, also when self.done is
\* the same set object, and a reset leaves done empty.
Thm_C30 ==
    /\ [](agents = Universe)
    /\ [][/\ agents' = agents
          /\ call'.op = "reset" => (done' = {} /\ agents' = Universe)]_vars

\* self.done is the set object self.agents, and a step with offers has
\* returned since: all four agents are still there
Wit_C30 ==
    /\ StepReturned
    /\ doneIsAgents
    /\ max_steps = 1
    /\ time = 2
    /\ call.offers # <<>>
    /\ deal_history[1] # <<>>
    /\ Cardinality(agents) = 4
    /\ agents = Universe
    /\ done = agents

====
